---- MODULE Spec2Model ----
(***************************************************************************)
(* Model of the sanctum-token-ratio fee arithmetic of sanctum-solana-utils, *)
(* of the instruction data of its generated stake pool interface and of    *)
(* the return data helper of its test utilities.                           *)
(*                                                                         *)
(* Every operation modelled is a pure function over value types, so the    *)
(* state machine is: the receiver (a fee, a ratio under a rounding policy, *)
(* an instruction) and the arguments are drawn in Init, a call is made on  *)
(* them, its result is recorded, a caller may feed the result to a next    *)
(* call, and the call returns.  Spec holds the fee calls and the           *)
(* conversion of their errors, SpecRatio the apply and reverse calls on a  *)
(* ratio, SpecCmp the comparisons of two ratios and their application,     *)
(* SpecOrd the chains of comparisons over three ratios, SpecIx the         *)
(* serialization of instructions and SpecPad the padding of return data.   *)
(*                                                                         *)
(* Integer widths.  TLC computes in 32-bit integers, so the 64-bit amount  *)
(* type is scaled down to U64_MAX and the 128-bit intermediate type to     *)
(* U128_MAX, keeping what the code relies on: every u16 fits a u64         *)
(* operand's widened product (U64_MAX * U16_MAX <= U128_MAX), and the      *)
(* product of two u64 fits the widened type (U64_MAX^2 <= U128_MAX).       *)
(* u16 (the bps type) keeps its true width.                                *)
(***************************************************************************)
EXTENDS Integers, FiniteSets, Sequences, TLC

VARIABLES
    fee,    \* the fee a call is made on
    amt,    \* the u64 argument of the call
    ratio,  \* the ratio (with its rounding policy) a call is made on
    rhs,    \* the ratio a comparison is made against
    third,  \* a third ratio, compared with the other two
    ix,     \* the instruction a serialization is made of
    buf,    \* the byte buffer argument of a call
    N,      \* the const generic argument N of a call
    op,     \* the call made last, "idle" before any
    res,    \* what that call returned
    trail   \* the results of the earlier calls of a chain of calls

vars == <<fee, amt, ratio, rhs, third, ix, buf, N, op, res, trail>>

\* what a call leaves alone: its receiver and its arguments
inputs == <<fee, amt, ratio, rhs, third, ix, buf, N>>

-----------------------------------------------------------------------------
(* Widths *)

\* largest value of the (scaled) 64-bit amount type
U64_MAX == 16383

\* largest value of u16, the type of U64BpsFeeCeil's field
U16_MAX == 65535

\* largest value of the (scaled) 128-bit widened type
U128_MAX == U64_MAX * (U16_MAX + 1) + U16_MAX

BPS_DENOMINATOR == 10000

\* how many of the smallest / largest values of a range Init draws
MaxSmall == 3

\* longest byte buffer Init draws, and largest N
MaxLen == 3

-----------------------------------------------------------------------------
(* Results: Result<T, MathError> and plain values *)

Ok(v) == [tag |-> "Ok", val |-> v]

Err(e) == [tag |-> "Err", val |-> e]

Plain(v) == [tag |-> "Plain", val |-> v]

NoResult == [tag |-> "None", val |-> 0]

\* the call aborted: an unwrap of None
Panic == [tag |-> "Panic", val |-> 0]

MathError == {"Overflow", "InvalidFeeSpec"}

IsOk(r) == r.tag = "Ok"

IsErr(r, e) == r.tag = "Err" /\ r.val = e

AmtsAfterFee(a, f) == [amt_after_fee |-> a, fees_charged |-> f]

U64ValueRange(lo, hi) == [min |-> lo, max |-> hi]

-----------------------------------------------------------------------------
(* MathError into ProgramError *)

MATH_ERROR_PROGRAM_ERROR_CODE == 696969

\* ProgramError::Custom
Custom(code) == [tag |-> "Custom", val |-> code]

\* mutant: one code for each kind of failure
from_by_kind(value) ==
    Custom(MATH_ERROR_PROGRAM_ERROR_CODE + (IF value = "Overflow" THEN 0 ELSE 1))

\* From<MathError> for ProgramError
from(value) == Custom(MATH_ERROR_PROGRAM_ERROR_CODE)

-----------------------------------------------------------------------------
(* Widened arithmetic *)

\* mutant: the product taken in 64 bits, before widening
checked_mul_u64(a, b) ==
    IF b # 0 /\ a > U64_MAX \div b THEN Err("Overflow") ELSE Ok(a * b)

\* u128::checked_mul: the product, or Overflow when it does not fit
checked_mul(a, b) ==
    IF b # 0 /\ a > U128_MAX \div b THEN Err("Overflow") ELSE Ok(a * b)

\* u128 -> u64 conversion: Overflow when the value does not fit
u128_to_u64_checked(x) ==
    IF x > U64_MAX THEN Err("Overflow") ELSE Ok(x)

\* ceil(a / b) for b > 0
ceil_div(a, b) == (a + b - 1) \div b

-----------------------------------------------------------------------------
(* U64Ratio<N, D> under a rounding policy: forward application and reverse *)

U64Ratio(n, d) == [num |-> n, denom |-> d]

\* mutant: a zero denom fails the division instead of applying to 0
FloorDiv_apply_zero_denom_fails(num, denom, amount) ==
    IF denom = 0 THEN Err("Overflow")
    ELSE LET p == checked_mul(amount, num) IN
         IF ~IsOk(p) THEN p ELSE u128_to_u64_checked(p.val \div denom)

\* floor(amount * num / denom) in widened arithmetic; a zero denom applies to 0
FloorDiv_apply(num, denom, amount) ==
    IF denom = 0 \/ num = 0 THEN Ok(0)
    ELSE LET p == checked_mul(amount, num) IN
         IF ~IsOk(p) THEN p ELSE u128_to_u64_checked(p.val \div denom)

\* ceil(amount * num / denom) in widened arithmetic; a zero denom applies to 0
CeilDiv_apply(num, denom, amount) ==
    IF denom = 0 \/ num = 0 THEN Ok(0)
    ELSE LET p == checked_mul(amount, num) IN
         IF ~IsOk(p) THEN p ELSE u128_to_u64_checked(ceil_div(p.val, denom))

\* mutant: a zero ratio reversed to the single amount 0
FloorDiv_reverse_zero_only(num, denom, amt_after_apply) ==
    IF denom = 0 \/ num = 0 THEN Ok(U64ValueRange(0, 0))
    ELSE LET lo == checked_mul(amt_after_apply, denom)
             hi == checked_mul(amt_after_apply + 1, denom)
         IN  IF ~IsOk(lo) THEN lo
             ELSE IF ~IsOk(hi) THEN hi
             ELSE LET min == ceil_div(lo.val, num)
                      max == ceil_div(hi.val, num) - 1
                  IN  IF min > U64_MAX THEN Err("Overflow")
                      ELSE Ok(U64ValueRange(min, IF max > U64_MAX THEN U64_MAX ELSE max))

\* mutant: the upper end not stepped back below the next output's first amount
FloorDiv_reverse_open_max(num, denom, amt_after_apply) ==
    IF denom = 0 \/ num = 0 THEN Ok(U64ValueRange(0, U64_MAX))
    ELSE LET lo == checked_mul(amt_after_apply, denom)
             hi == checked_mul(amt_after_apply + 1, denom)
         IN  IF ~IsOk(lo) THEN lo
             ELSE IF ~IsOk(hi) THEN hi
             ELSE LET min == ceil_div(lo.val, num)
                      max == ceil_div(hi.val, num)
                  IN  IF min > U64_MAX THEN Err("Overflow")
                      ELSE Ok(U64ValueRange(min, IF max > U64_MAX THEN U64_MAX ELSE max))

\* the closed interval of amounts that FloorDiv_apply maps onto amt_after_apply
FloorDiv_reverse(num, denom, amt_after_apply) ==
    IF denom = 0 \/ num = 0 THEN Ok(U64ValueRange(0, U64_MAX))
    ELSE LET lo == checked_mul(amt_after_apply, denom)
             hi == checked_mul(amt_after_apply + 1, denom)
         IN  IF ~IsOk(lo) THEN lo
             ELSE IF ~IsOk(hi) THEN hi
             ELSE LET min == ceil_div(lo.val, num)
                      max == ceil_div(hi.val, num) - 1
                  IN  IF min > U64_MAX THEN Err("Overflow")
                      ELSE Ok(U64ValueRange(min, IF max > U64_MAX THEN U64_MAX ELSE max))

\* the closed interval of amounts that CeilDiv_apply maps onto amt_after_apply:
\* from the smallest amount that yields it to one less than the smallest
\* amount that yields amt_after_apply + 1
CeilDiv_reverse(num, denom, amt_after_apply) ==
    IF denom = 0 \/ num = 0 THEN Ok(U64ValueRange(0, U64_MAX))
    ELSE LET hi == checked_mul(amt_after_apply, denom) IN
         IF ~IsOk(hi) THEN hi
         ELSE LET min == IF amt_after_apply = 0 THEN 0
                         ELSE (hi.val - denom) \div num + 1
                  max == hi.val \div num
              IN  IF min > U64_MAX THEN Err("Overflow")
                  ELSE Ok(U64ValueRange(min, IF max > U64_MAX THEN U64_MAX ELSE max))

\* a ratio with its rounding policy: FloorDiv(U64Ratio) or CeilDiv(U64Ratio)
FloorDiv(r) == [kind |-> "floor", num |-> r.num, denom |-> r.denom]

CeilDiv(r) == [kind |-> "ceil", num |-> r.num, denom |-> r.denom]

\* mutant: the rounding policies exchanged
ReversibleRatio_apply_swapped(r, amount) ==
    IF r.kind = "ceil" THEN FloorDiv_apply(r.num, r.denom, amount)
    ELSE CeilDiv_apply(r.num, r.denom, amount)

\* trait ReversibleRatio: apply, by the implementation of the receiver's policy
ReversibleRatio_apply(r, amount) ==
    IF r.kind = "floor" THEN FloorDiv_apply(r.num, r.denom, amount)
    ELSE CeilDiv_apply(r.num, r.denom, amount)

\* mutant: the rounding policies exchanged
ReversibleRatio_reverse_swapped(r, amt_after_apply) ==
    IF r.kind = "ceil" THEN FloorDiv_reverse(r.num, r.denom, amt_after_apply)
    ELSE CeilDiv_reverse(r.num, r.denom, amt_after_apply)

\* trait ReversibleRatio: reverse, by the implementation of the receiver's policy
ReversibleRatio_reverse(r, amt_after_apply) ==
    IF r.kind = "floor" THEN FloorDiv_reverse(r.num, r.denom, amt_after_apply)
    ELSE CeilDiv_reverse(r.num, r.denom, amt_after_apply)

-----------------------------------------------------------------------------
(* U64Ratio: equality and ordering by cross-multiplication in 128 bits *)

\* Option::unwrap: whether it panics
unwrap_panics(o) == ~IsOk(o)

Ordering(a, b) == IF a < b THEN "Less" ELSE IF a = b THEN "Equal" ELSE "Greater"

\* mutant: the field-wise equality a derived PartialEq would give
eq_derived(self, other) ==
    Plain(self.num = other.num /\ self.denom = other.denom)

\* PartialEq::eq
eq(self, other) ==
    LET ln == self.num
        ld == self.denom
        rn == other.num
        rd == other.denom
        lhs == checked_mul(ln, rd)
        rhs_ == checked_mul(rn, ld)
    IN  IF unwrap_panics(lhs) \/ unwrap_panics(rhs_) THEN Panic
        ELSE Plain(lhs.val = rhs_.val)

\* mutant: the products compared the other way round
cmp_inner_reversed(l, r) ==
    LET lhs == checked_mul(l.num, r.denom)
        rhs_ == checked_mul(r.num, l.denom)
    IN  IF unwrap_panics(lhs) \/ unwrap_panics(rhs_) THEN Panic
        ELSE Plain(Ordering(rhs_.val, lhs.val))

\* mutant: the numerators compared, the denominators left out
cmp_inner_nums(l, r) == Plain(Ordering(l.num, r.num))

cmp_inner(l, r) ==
    LET ln == l.num
        ld == l.denom
        rn == r.num
        rd == r.denom
        lhs == checked_mul(ln, rd)
        rhs_ == checked_mul(rn, ld)
    IN  IF unwrap_panics(lhs) \/ unwrap_panics(rhs_) THEN Panic
        ELSE Plain(Ordering(lhs.val, rhs_.val))

\* PartialOrd::partial_cmp and Ord::cmp
cmp(self, other) == cmp_inner(self, other)

-----------------------------------------------------------------------------
(* U64FeeCeil<N, D>: the fee ratio fee_num / fee_denom *)

U64FeeCeil(n, d) == [fee_num |-> n, fee_denom |-> d]

\* mutant: a zero fee_denom taken for "no fee" before the fee is validated
U64FeeCeil_apply_zero_denom_first(f, amount) ==
    IF f.fee_denom = 0 THEN Ok(AmtsAfterFee(amount, 0))
    ELSE IF f.fee_num > f.fee_denom THEN Err("InvalidFeeSpec")
    ELSE LET r == FloorDiv_apply(f.fee_denom - f.fee_num, f.fee_denom, amount) IN
         IF ~IsOk(r) THEN r
         ELSE Ok(AmtsAfterFee(r.val, amount - r.val))

U64FeeCeil_apply(f, amount) ==
    IF f.fee_num > f.fee_denom THEN Err("InvalidFeeSpec")
    ELSE IF f.fee_denom = 0 THEN Ok(AmtsAfterFee(amount, 0))
    ELSE LET r == FloorDiv_apply(f.fee_denom - f.fee_num, f.fee_denom, amount) IN
         IF ~IsOk(r) THEN r
         ELSE Ok(AmtsAfterFee(r.val, amount - r.val))

U64FeeCeil_pseudo_reverse(f, amt_after_fee) ==
    IF f.fee_num = 0 \/ f.fee_denom = 0 THEN Ok(amt_after_fee)
    ELSE IF f.fee_num > f.fee_denom THEN Err("InvalidFeeSpec")
    ELSE LET r == FloorDiv_reverse(f.fee_denom - f.fee_num, f.fee_denom, amt_after_fee) IN
         IF ~IsOk(r) THEN r ELSE Ok(r.val.min)

-----------------------------------------------------------------------------
(* U64BpsFeeCeil(u16) *)

\* mutant: numerator and denominator exchanged
as_u64_fee_ceil_swapped(bps) == U64FeeCeil(BPS_DENOMINATOR, bps)

\* mutant: the share that remains taken for the fee (u16 wrapping subtraction)
as_u64_fee_ceil_complement(bps) ==
    U64FeeCeil((BPS_DENOMINATOR - bps) % (U16_MAX + 1), BPS_DENOMINATOR)

as_u64_fee_ceil(bps) == U64FeeCeil(bps, BPS_DENOMINATOR)

U64BpsFeeCeil_apply(bps, amount) == U64FeeCeil_apply(as_u64_fee_ceil(bps), amount)

\* mutant: strict comparison
U64BpsFeeCeil_is_valid_strict(bps) == bps < BPS_DENOMINATOR

U64BpsFeeCeil_is_valid(bps) == bps <= BPS_DENOMINATOR

\* mutant: delegates to apply and hands back what is left after the fee
U64BpsFeeCeil_pseudo_reverse_applies(bps, amt_after_fee) ==
    LET r == U64FeeCeil_apply(as_u64_fee_ceil(bps), amt_after_fee) IN
    IF ~IsOk(r) THEN r ELSE Ok(r.val.amt_after_fee)

U64BpsFeeCeil_pseudo_reverse(bps, amt_after_fee) ==
    U64FeeCeil_pseudo_reverse(as_u64_fee_ceil(bps), amt_after_fee)

-----------------------------------------------------------------------------
(* Inputs *)

Near(c) == {c - 1, c, c + 1}

Ends(max) == (0..MaxSmall) \cup {max - k : k \in 0..MaxSmall}

\* u16 bps values: the ends of the type, and the neighbourhoods of 25%, a
\* third, 50% and 100%
BpsValues ==
    (Ends(U16_MAX) \cup Near(BPS_DENOMINATOR \div 4) \cup Near(BPS_DENOMINATOR \div 3)
       \cup Near(BPS_DENOMINATOR \div 2) \cup Near(BPS_DENOMINATOR))
    \cap (0..U16_MAX)

\* components of a generic fee
FeeValues == (0..MaxSmall) \cup {BPS_DENOMINATOR, U16_MAX}

\* u64 amounts: the ends of the type, and values around the bps denominator
Amounts ==
    (Ends(U64_MAX) \cup Near(BPS_DENOMINATOR) \cup {500, BPS_DENOMINATOR \div 3})
    \cap (0..U64_MAX)

Fees ==
    {[kind |-> "bps", bps |-> b] : b \in BpsValues}
    \cup {[kind |-> "fee", fee_num |-> n, fee_denom |-> d] : n \in FeeValues, d \in FeeValues}

\* components of a ratio: the ends of u64, and a few small values
RatioValues == (Ends(U64_MAX) \cup {4, 7}) \cap (0..U64_MAX)

PlainRatios == {U64Ratio(n, d) : n \in RatioValues, d \in RatioValues}

\* the amounts two compared ratios are applied to
CmpAmounts == {1, 7, U64_MAX}

Ratios == {FloorDiv(r) : r \in PlainRatios} \cup {CeilDiv(r) : r \in PlainRatios}

\* the fee ratio a fee value stands for
FeeNum(f) == IF f.kind = "bps" THEN f.bps ELSE f.fee_num

FeeDenom(f) == IF f.kind = "bps" THEN BPS_DENOMINATOR ELSE f.fee_denom

-----------------------------------------------------------------------------
(* The state machine *)

\* no ratio: the fee calls are made on a fee alone
NoRatio == [kind |-> "none"]

\* no fee: the ratio calls are made on a ratio alone
NoFee == [kind |-> "none"]

\* no instruction
NoIx == [variant |-> "none"]

\* the arguments only the instruction and return data calls take
NoBytes ==
    /\ ix = NoIx
    /\ buf = <<>>
    /\ N = 0

Init ==
    /\ fee \in Fees
    /\ amt \in Amounts
    /\ ratio = NoRatio
    /\ rhs = NoRatio
    /\ third = NoRatio
    /\ NoBytes
    /\ op = "idle"
    /\ res = NoResult
    /\ trail = <<>>

CallBpsApply ==
    /\ op = "idle"
    /\ fee.kind = "bps"
    /\ op' = "apply"
    /\ res' = U64BpsFeeCeil_apply(fee.bps, amt)
    /\ UNCHANGED <<inputs, trail>>

CallBpsIsValid ==
    /\ op = "idle"
    /\ fee.kind = "bps"
    /\ op' = "is_valid"
    /\ res' = Plain(U64BpsFeeCeil_is_valid(fee.bps))
    /\ UNCHANGED <<inputs, trail>>

CallBpsPseudoReverse ==
    /\ op = "idle"
    /\ fee.kind = "bps"
    /\ op' = "pseudo_reverse"
    /\ res' = U64BpsFeeCeil_pseudo_reverse(fee.bps, amt)
    /\ UNCHANGED <<inputs, trail>>

CallFeeApply ==
    /\ op = "idle"
    /\ fee.kind = "fee"
    /\ op' = "apply"
    /\ res' = U64FeeCeil_apply(U64FeeCeil(fee.fee_num, fee.fee_denom), amt)
    /\ UNCHANGED <<inputs, trail>>

CallFeePseudoReverse ==
    /\ op = "idle"
    /\ fee.kind = "fee"
    /\ op' = "pseudo_reverse"
    /\ res' = U64FeeCeil_pseudo_reverse(U64FeeCeil(fee.fee_num, fee.fee_denom), amt)
    /\ UNCHANGED <<inputs, trail>>

\* the caller feeds what apply left after the fee to pseudo_reverse
CallBpsPseudoReverseOfApplied ==
    /\ op = "apply"
    /\ fee.kind = "bps"
    /\ IsOk(res)
    /\ op' = "pseudo_reverse_of_applied"
    /\ res' = U64BpsFeeCeil_pseudo_reverse(fee.bps, res.val.amt_after_fee)
    /\ trail' = <<res>>
    /\ UNCHANGED inputs

\* the caller feeds the amount pseudo_reverse recovered to apply
CallBpsApplyOfReversed ==
    /\ op = "pseudo_reverse_of_applied"
    /\ IsOk(res)
    /\ op' = "apply_of_reversed"
    /\ res' = U64BpsFeeCeil_apply(fee.bps, res.val)
    /\ trail' = Append(trail, res)
    /\ UNCHANGED inputs

\* the caller hands the MathError of a failed call on as a ProgramError
CallIntoProgramError ==
    /\ op \in {"apply", "pseudo_reverse"}
    /\ res.tag = "Err"
    /\ op' = "into_program_error"
    /\ res' = from(res.val)
    /\ trail' = <<res>>
    /\ UNCHANGED inputs

\* the call returns; the values are dropped
Return ==
    /\ op # "idle"
    /\ op' = "idle"
    /\ res' = NoResult
    /\ trail' = <<>>
    /\ UNCHANGED inputs

Next ==
    \/ CallBpsApply
    \/ CallBpsIsValid
    \/ CallBpsPseudoReverse
    \/ CallFeeApply
    \/ CallFeePseudoReverse
    \/ CallBpsPseudoReverseOfApplied
    \/ CallBpsApplyOfReversed
    \/ CallIntoProgramError
    \/ Return

Spec == Init /\ [][Next]_vars

-----------------------------------------------------------------------------
(* The ratio calls: apply and reverse under a rounding policy *)

InitRatio ==
    /\ fee = NoFee
    /\ amt \in Amounts
    /\ ratio \in Ratios
    /\ rhs = NoRatio
    /\ third = NoRatio
    /\ NoBytes
    /\ op = "idle"
    /\ res = NoResult
    /\ trail = <<>>

CallRatioApply ==
    /\ op = "idle"
    /\ ratio.kind \in {"floor", "ceil"}
    /\ op' = "ratio_apply"
    /\ res' = ReversibleRatio_apply(ratio, amt)
    /\ UNCHANGED <<inputs, trail>>

CallRatioReverse ==
    /\ op = "idle"
    /\ ratio.kind \in {"floor", "ceil"}
    /\ op' = "ratio_reverse"
    /\ res' = ReversibleRatio_reverse(ratio, amt)
    /\ UNCHANGED <<inputs, trail>>

\* the caller feeds what apply returned to reverse
CallRatioReverseOfApplied ==
    /\ op = "ratio_apply"
    /\ IsOk(res)
    /\ op' = "ratio_reverse_of_applied"
    /\ res' = ReversibleRatio_reverse(ratio, res.val)
    /\ trail' = <<res>>
    /\ UNCHANGED inputs

NextRatio ==
    \/ CallRatioApply
    \/ CallRatioReverse
    \/ CallRatioReverseOfApplied
    \/ Return

SpecRatio == InitRatio /\ [][NextRatio]_vars

-----------------------------------------------------------------------------
(* The ratio comparisons *)

InitCmp ==
    /\ fee = NoFee
    /\ amt \in CmpAmounts
    /\ ratio \in PlainRatios
    /\ rhs \in PlainRatios
    /\ third = NoRatio
    /\ NoBytes
    /\ op = "idle"
    /\ res = NoResult
    /\ trail = <<>>

CallEq ==
    /\ op = "idle"
    /\ op' = "eq"
    /\ res' = eq(ratio, rhs)
    /\ UNCHANGED <<inputs, trail>>

CallCmp ==
    /\ op = "idle"
    /\ op' = "cmp"
    /\ res' = cmp(ratio, rhs)
    /\ UNCHANGED <<inputs, trail>>

\* the caller applies the left ratio, rounding down, after comparing the two
CallApplyLhs ==
    /\ op = "cmp"
    /\ op' = "apply_lhs"
    /\ res' = ReversibleRatio_apply(FloorDiv(ratio), amt)
    /\ trail' = <<res>>
    /\ UNCHANGED inputs

\* and then the right ratio, to the same amount
CallApplyRhs ==
    /\ op = "apply_lhs"
    /\ op' = "apply_rhs"
    /\ res' = ReversibleRatio_apply(FloorDiv(rhs), amt)
    /\ trail' = Append(trail, res)
    /\ UNCHANGED inputs

NextCmp ==
    \/ CallEq
    \/ CallCmp
    \/ CallApplyLhs
    \/ CallApplyRhs
    \/ Return

SpecCmp == InitCmp /\ [][NextCmp]_vars

-----------------------------------------------------------------------------
(* Chains of comparisons over three ratios *)

\* components of the ratios compared in chains: small values, zero included,
\* and the largest
OrdValues == (0..(MaxSmall - 1)) \cup {U64_MAX}

OrdRatios == {U64Ratio(n, d) : n \in OrdValues, d \in OrdValues}

InitOrd ==
    /\ fee = NoFee
    /\ amt = 0
    /\ ratio \in OrdRatios
    /\ rhs \in OrdRatios
    /\ third \in OrdRatios
    /\ NoBytes
    /\ op = "idle"
    /\ res = NoResult
    /\ trail = <<>>

\* a ratio compared with itself
CallEqSelf ==
    /\ op = "idle"
    /\ op' = "eq_self"
    /\ res' = eq(ratio, ratio)
    /\ UNCHANGED <<inputs, trail>>

\* after ratio == rhs: rhs == third
CallEqNext ==
    /\ op = "eq"
    /\ op' = "eq_next"
    /\ res' = eq(rhs, third)
    /\ trail' = <<res>>
    /\ UNCHANGED inputs

\* and then ratio == third
CallEqOuter ==
    /\ op = "eq_next"
    /\ op' = "eq_outer"
    /\ res' = eq(ratio, third)
    /\ trail' = Append(trail, res)
    /\ UNCHANGED inputs

\* after ratio.cmp(rhs): rhs.cmp(third)
CallCmpNext ==
    /\ op = "cmp"
    /\ op' = "cmp_next"
    /\ res' = cmp(rhs, third)
    /\ trail' = <<res>>
    /\ UNCHANGED inputs

\* and then ratio.cmp(third)
CallCmpOuter ==
    /\ op = "cmp_next"
    /\ op' = "cmp_outer"
    /\ res' = cmp(ratio, third)
    /\ trail' = Append(trail, res)
    /\ UNCHANGED inputs

\* after ratio.cmp(rhs): the two the other way round, rhs.cmp(ratio)
CallCmpFlipped ==
    /\ op = "cmp"
    /\ op' = "cmp_flipped"
    /\ res' = cmp(rhs, ratio)
    /\ trail' = <<res>>
    /\ UNCHANGED inputs

\* and then ratio == rhs
CallEqAfterCmp ==
    /\ op = "cmp_flipped"
    /\ op' = "eq_after_cmp"
    /\ res' = eq(ratio, rhs)
    /\ trail' = Append(trail, res)
    /\ UNCHANGED inputs

NextOrd ==
    \/ CallEq
    \/ CallCmp
    \/ CallEqSelf
    \/ CallEqNext
    \/ CallEqOuter
    \/ CallCmpNext
    \/ CallCmpOuter
    \/ CallCmpFlipped
    \/ CallEqAfterCmp
    \/ Return

SpecOrd == InitOrd /\ [][NextOrd]_vars

-----------------------------------------------------------------------------
(* Return data, padded back to its full length *)

\* <[u8]>::get_mut(..end): the first end bytes, None when there are fewer
get_mut(slice, end) ==
    IF end > Len(slice) THEN Err("None") ELSE Ok(1..end)

\* mutant: the bytes that do not fit are dropped
zero_padded_return_data_truncating(size, return_data) ==
    Plain([i \in 1..size |-> IF i <= Len(return_data) THEN return_data[i] ELSE 0])

zero_padded_return_data(size, return_data) ==
    LET zeroes == [i \in 1..size |-> 0]
        subslice == get_mut(zeroes, Len(return_data))
    IN  IF unwrap_panics(subslice) THEN Panic
        ELSE Plain([i \in 1..size |-> IF i \in subslice.val THEN return_data[i] ELSE zeroes[i]])

\* the bytes drawn: zero, and two that are not
ByteValues == {0, 1, 255}

\* the byte buffers of at most MaxLen bytes
Buffers == UNION {[1..len -> ByteValues] : len \in 0..MaxLen}

InitPad ==
    /\ fee = NoFee
    /\ amt = 0
    /\ ratio = NoRatio
    /\ rhs = NoRatio
    /\ third = NoRatio
    /\ ix = NoIx
    /\ buf \in Buffers
    /\ N \in 0..MaxLen
    /\ op = "idle"
    /\ res = NoResult
    /\ trail = <<>>

CallZeroPaddedReturnData ==
    /\ op = "idle"
    /\ op' = "zero_padded_return_data"
    /\ res' = zero_padded_return_data(N, buf)
    /\ UNCHANGED <<inputs, trail>>

NextPad ==
    \/ CallZeroPaddedReturnData
    \/ Return

SpecPad == InitPad /\ [][NextPad]_vars

-----------------------------------------------------------------------------
(* SplStakePoolProgramIx: the instruction data, a discriminator byte followed *)
(* by the borsh encoding of the variant's arguments                          *)

INITIALIZE_IX_DISCM == 0

ADD_VALIDATOR_TO_POOL_IX_DISCM == 1

REMOVE_VALIDATOR_FROM_POOL_IX_DISCM == 2

UPDATE_VALIDATOR_LIST_BALANCE_IX_DISCM == 6

UPDATE_STAKE_POOL_BALANCE_IX_DISCM == 7

CLEANUP_REMOVED_VALIDATOR_ENTRIES_IX_DISCM == 8

SET_MANAGER_IX_DISCM == 11

SET_FEE_IX_DISCM == 12

SET_STAKER_IX_DISCM == 13

SET_FUNDING_AUTHORITY_IX_DISCM == 15

INCREASE_ADDITIONAL_VALIDATOR_STAKE_IX_DISCM == 19

DECREASE_ADDITIONAL_VALIDATOR_STAKE_IX_DISCM == 20

\* the bytes a borsh primitive takes
width(type) ==
    CASE type = "u8" -> 1
      [] type = "bool" -> 1
      [] type = "u32" -> 4
      [] type = "u64" -> 8

\* Fee {denominator: u64, numerator: u64}
Fee == <<"u64", "u64">>

\* AdditionalValidatorStakeArgs {lamports, transient_stake_seed, ephemeral_stake_seed}
AdditionalValidatorStakeArgs == <<"u64", "u64", "u64">>

\* enum FeeType: what follows the variant index; SolReferral(u8),
\* StakeReferral(u8), and five variants that hold a Fee
FeeType(index) == IF index \in {0, 1} THEN <<"u8">> ELSE Fee

FeeTypeVariants == 0..6

\* the fields of each variant's IxArgs struct, in declaration order
IxArgs(variant) ==
    CASE variant = "Initialize" -> Fee \o Fee \o Fee \o <<"u8", "u32">>
      [] variant = "AddValidatorToPool" -> <<"u32">>
      [] variant = "UpdateValidatorListBalance" -> <<"u32", "bool">>
      [] variant = "IncreaseAdditionalValidatorStake" -> AdditionalValidatorStakeArgs
      [] variant = "DecreaseAdditionalValidatorStake" -> AdditionalValidatorStakeArgs
      [] OTHER -> <<>>

RECURSIVE to_le_bytes(_, _)
\* the low `count` bytes of value, least significant first
to_le_bytes(value, count) ==
    IF count = 0 THEN <<>>
    ELSE <<value % 256>> \o to_le_bytes(value \div 256, count - 1)

RECURSIVE from_le_bytes(_)
from_le_bytes(bytes) ==
    IF bytes = <<>> THEN 0
    ELSE bytes[1] + 256 * from_le_bytes(Tail(bytes))

\* BorshSerialize of a primitive
borsh_serialize(type, value) ==
    IF type = "bool" THEN <<IF value THEN 1 ELSE 0>>
    ELSE to_le_bytes(value, width(type))

RECURSIVE borsh_serialize_fields(_, _)
\* derived BorshSerialize of a struct: its fields in order
borsh_serialize_fields(types, values) ==
    IF types = <<>> THEN <<>>
    ELSE borsh_serialize(Head(types), Head(values))
             \o borsh_serialize_fields(Tail(types), Tail(values))

RECURSIVE borsh_deserialize_fields(_, _)
\* derived BorshDeserialize of a struct: its fields read in order off the
\* reader; what is left of the reader stays unread
borsh_deserialize_fields(types, reader) ==
    IF types = <<>> THEN Ok(<<>>)
    ELSE LET count == width(Head(types)) IN
         IF Len(reader) < count THEN Err("UnexpectedEof")
         ELSE LET raw == from_le_bytes(SubSeq(reader, 1, count))
                  rest == borsh_deserialize_fields(Tail(types), SubSeq(reader, count + 1, Len(reader)))
              IN  IF Head(types) = "bool" /\ raw > 1 THEN Err("InvalidData")
                  ELSE IF ~IsOk(rest) THEN rest
                  ELSE Ok(<<IF Head(types) = "bool" THEN raw = 1 ELSE raw>> \o rest.val)

\* <variant>IxArgs::serialize
args_serialize(variant, args) ==
    IF variant = "SetFee"
    THEN <<Head(args)>> \o borsh_serialize_fields(FeeType(Head(args)), Tail(args))
    ELSE borsh_serialize_fields(IxArgs(variant), args)

\* <variant>IxArgs::deserialize
args_deserialize(variant, reader) ==
    IF variant = "SetFee"
    THEN IF reader = <<>> THEN Err("UnexpectedEof")
         ELSE IF Head(reader) \notin FeeTypeVariants THEN Err("InvalidData")
         ELSE LET fields == borsh_deserialize_fields(FeeType(Head(reader)), Tail(reader)) IN
              IF ~IsOk(fields) THEN fields ELSE Ok(<<Head(reader)>> \o fields.val)
    ELSE borsh_deserialize_fields(IxArgs(variant), reader)

\* a value of enum SplStakePoolProgramIx
SplStakePoolProgramIx(variant, args) == [variant |-> variant, args |-> args]

\* a match arm of deserialize: Ok(Self::Variant(VariantIxArgs::deserialize(&mut reader)?))
deserialize_arm(variant, reader) ==
    LET args == args_deserialize(variant, reader) IN
    IF ~IsOk(args) THEN args ELSE Ok(SplStakePoolProgramIx(variant, args.val))

-----------------------------------------------------------------------------
(* SplStakePoolProgramIx: deserialize, serialize, try_to_vec *)

\* mutant: the arms of SetManager and SetStaker exchanged
deserialize_arms_exchanged(data) ==
    IF Len(data) < 1 THEN Err("UnexpectedEof")
    ELSE LET maybe_discm == data[1]
             reader == Tail(data)
         IN  CASE maybe_discm = INITIALIZE_IX_DISCM ->
                       deserialize_arm("Initialize", reader)
               [] maybe_discm = ADD_VALIDATOR_TO_POOL_IX_DISCM ->
                       deserialize_arm("AddValidatorToPool", reader)
               [] maybe_discm = REMOVE_VALIDATOR_FROM_POOL_IX_DISCM ->
                       Ok(SplStakePoolProgramIx("RemoveValidatorFromPool", <<>>))
               [] maybe_discm = UPDATE_VALIDATOR_LIST_BALANCE_IX_DISCM ->
                       deserialize_arm("UpdateValidatorListBalance", reader)
               [] maybe_discm = UPDATE_STAKE_POOL_BALANCE_IX_DISCM ->
                       Ok(SplStakePoolProgramIx("UpdateStakePoolBalance", <<>>))
               [] maybe_discm = CLEANUP_REMOVED_VALIDATOR_ENTRIES_IX_DISCM ->
                       Ok(SplStakePoolProgramIx("CleanupRemovedValidatorEntries", <<>>))
               [] maybe_discm = SET_MANAGER_IX_DISCM ->
                       Ok(SplStakePoolProgramIx("SetStaker", <<>>))
               [] maybe_discm = SET_FEE_IX_DISCM ->
                       deserialize_arm("SetFee", reader)
               [] maybe_discm = SET_STAKER_IX_DISCM ->
                       Ok(SplStakePoolProgramIx("SetManager", <<>>))
               [] maybe_discm = SET_FUNDING_AUTHORITY_IX_DISCM ->
                       Ok(SplStakePoolProgramIx("SetFundingAuthority", <<>>))
               [] maybe_discm = INCREASE_ADDITIONAL_VALIDATOR_STAKE_IX_DISCM ->
                       deserialize_arm("IncreaseAdditionalValidatorStake", reader)
               [] maybe_discm = DECREASE_ADDITIONAL_VALIDATOR_STAKE_IX_DISCM ->
                       deserialize_arm("DecreaseAdditionalValidatorStake", reader)
               [] OTHER -> Err("Other")

\* SplStakePoolProgramIx::deserialize
deserialize(data) ==
    IF Len(data) < 1 THEN Err("UnexpectedEof")
    ELSE LET maybe_discm == data[1]
             reader == Tail(data)
         IN  CASE maybe_discm = INITIALIZE_IX_DISCM ->
                       deserialize_arm("Initialize", reader)
               [] maybe_discm = ADD_VALIDATOR_TO_POOL_IX_DISCM ->
                       deserialize_arm("AddValidatorToPool", reader)
               [] maybe_discm = REMOVE_VALIDATOR_FROM_POOL_IX_DISCM ->
                       Ok(SplStakePoolProgramIx("RemoveValidatorFromPool", <<>>))
               [] maybe_discm = UPDATE_VALIDATOR_LIST_BALANCE_IX_DISCM ->
                       deserialize_arm("UpdateValidatorListBalance", reader)
               [] maybe_discm = UPDATE_STAKE_POOL_BALANCE_IX_DISCM ->
                       Ok(SplStakePoolProgramIx("UpdateStakePoolBalance", <<>>))
               [] maybe_discm = CLEANUP_REMOVED_VALIDATOR_ENTRIES_IX_DISCM ->
                       Ok(SplStakePoolProgramIx("CleanupRemovedValidatorEntries", <<>>))
               [] maybe_discm = SET_MANAGER_IX_DISCM ->
                       Ok(SplStakePoolProgramIx("SetManager", <<>>))
               [] maybe_discm = SET_FEE_IX_DISCM ->
                       deserialize_arm("SetFee", reader)
               [] maybe_discm = SET_STAKER_IX_DISCM ->
                       Ok(SplStakePoolProgramIx("SetStaker", <<>>))
               [] maybe_discm = SET_FUNDING_AUTHORITY_IX_DISCM ->
                       Ok(SplStakePoolProgramIx("SetFundingAuthority", <<>>))
               [] maybe_discm = INCREASE_ADDITIONAL_VALIDATOR_STAKE_IX_DISCM ->
                       deserialize_arm("IncreaseAdditionalValidatorStake", reader)
               [] maybe_discm = DECREASE_ADDITIONAL_VALIDATOR_STAKE_IX_DISCM ->
                       deserialize_arm("DecreaseAdditionalValidatorStake", reader)
               [] OTHER -> Err("Other")

\* SplStakePoolProgramIx::serialize: what it writes to the writer
serialize(self) ==
    CASE self.variant = "Initialize" ->
               <<INITIALIZE_IX_DISCM>> \o args_serialize(self.variant, self.args)
      [] self.variant = "AddValidatorToPool" ->
               <<ADD_VALIDATOR_TO_POOL_IX_DISCM>> \o args_serialize(self.variant, self.args)
      [] self.variant = "RemoveValidatorFromPool" ->
               <<REMOVE_VALIDATOR_FROM_POOL_IX_DISCM>>
      [] self.variant = "UpdateValidatorListBalance" ->
               <<UPDATE_VALIDATOR_LIST_BALANCE_IX_DISCM>> \o args_serialize(self.variant, self.args)
      [] self.variant = "UpdateStakePoolBalance" ->
               <<UPDATE_STAKE_POOL_BALANCE_IX_DISCM>>
      [] self.variant = "CleanupRemovedValidatorEntries" ->
               <<CLEANUP_REMOVED_VALIDATOR_ENTRIES_IX_DISCM>>
      [] self.variant = "SetManager" ->
               <<SET_MANAGER_IX_DISCM>>
      [] self.variant = "SetFee" ->
               <<SET_FEE_IX_DISCM>> \o args_serialize(self.variant, self.args)
      [] self.variant = "SetStaker" ->
               <<SET_STAKER_IX_DISCM>>
      [] self.variant = "SetFundingAuthority" ->
               <<SET_FUNDING_AUTHORITY_IX_DISCM>>
      [] self.variant = "IncreaseAdditionalValidatorStake" ->
               <<INCREASE_ADDITIONAL_VALIDATOR_STAKE_IX_DISCM>> \o args_serialize(self.variant, self.args)
      [] self.variant = "DecreaseAdditionalValidatorStake" ->
               <<DECREASE_ADDITIONAL_VALIDATOR_STAKE_IX_DISCM>> \o args_serialize(self.variant, self.args)

\* SplStakePoolProgramIx::try_to_vec: a Vec never fails a write
try_to_vec(self) == Ok(serialize(self))

\* values of the argument fields: zero, and values that take more than one byte
FieldValues(type) ==
    CASE type = "u8" -> {0, 255}
      [] type = "bool" -> {FALSE, TRUE}
      [] type = "u32" -> {1, 2147483647}
      [] type = "u64" -> {0, 258}

RECURSIVE FieldTuples(_)
\* the values of a struct with the given fields
FieldTuples(types) ==
    IF types = <<>> THEN {<<>>}
    ELSE {<<value>> \o rest : value \in FieldValues(Head(types)),
                              rest \in FieldTuples(Tail(types))}

IxVariants ==
    {"Initialize", "AddValidatorToPool", "RemoveValidatorFromPool",
     "UpdateValidatorListBalance", "UpdateStakePoolBalance",
     "CleanupRemovedValidatorEntries", "SetManager", "SetFee", "SetStaker",
     "SetFundingAuthority", "IncreaseAdditionalValidatorStake",
     "DecreaseAdditionalValidatorStake"}

Instructions ==
    UNION {{SplStakePoolProgramIx("SetFee", <<index>> \o args) : args \in FieldTuples(FeeType(index))} :
             index \in FeeTypeVariants}
    \cup UNION {{SplStakePoolProgramIx(variant, args) : args \in FieldTuples(IxArgs(variant))} :
                   variant \in IxVariants \ {"SetFee"}}

\* instruction data from elsewhere: nothing, every single byte, and a few
\* discriminators followed by arguments, whole, cut short or ill-formed
IxBuffers ==
    {<<>>} \cup {<<byte>> : byte \in 0..255}
    \cup {<<1, 1, 0, 0, 0>>, <<6, 1, 0, 0, 0, 1>>, <<6, 1, 0, 0, 0, 2>>, <<6, 1>>,
          <<12, 7, 0>>, <<255, 1, 0, 0, 0>>}

InitIx ==
    /\ fee = NoFee
    /\ amt = 0
    /\ ratio = NoRatio
    /\ rhs = NoRatio
    /\ third = NoRatio
    /\ ix \in Instructions
    /\ buf \in IxBuffers
    /\ N = 0
    /\ op = "idle"
    /\ res = NoResult
    /\ trail = <<>>

CallTryToVec ==
    /\ op = "idle"
    /\ op' = "try_to_vec"
    /\ res' = try_to_vec(ix)
    /\ UNCHANGED <<inputs, trail>>

\* the caller reads back the bytes try_to_vec returned
CallDeserializeOfSerialized ==
    /\ op = "try_to_vec"
    /\ IsOk(res)
    /\ op' = "deserialize_of_serialized"
    /\ res' = deserialize(res.val)
    /\ trail' = <<res>>
    /\ UNCHANGED inputs

CallDeserialize ==
    /\ op = "idle"
    /\ op' = "deserialize"
    /\ res' = deserialize(buf)
    /\ UNCHANGED <<inputs, trail>>

NextIx ==
    \/ CallTryToVec
    \/ CallDeserializeOfSerialized
    \/ CallDeserialize
    \/ Return

SpecIx == InitIx /\ [][NextIx]_vars

-----------------------------------------------------------------------------
TypeOK ==
    /\ fee \in Fees \cup {NoFee}
    /\ amt \in 0..U64_MAX
    /\ res.tag \in {"Ok", "Err", "Plain", "None", "Panic", "Custom"}
    /\ Len(trail) <= 2

-----------------------------------------------------------------------------
(* Claims *)

Applied == op = "apply"

Reversed == op = "pseudo_reverse"

\* C1: for every fee with fee_num <= fee_denom and every amount, apply returns
\* Ok with amt_after_fee <= amount and amt_after_fee + fees_charged = amount.
C1_Exactness ==
    (Applied /\ FeeNum(fee) <= FeeDenom(fee)) =>
        /\ IsOk(res)
        /\ res.val.amt_after_fee <= amt
        /\ res.val.amt_after_fee + res.val.fees_charged = amt

\* a 33.33% bps fee applied to an amount that leaves a rounding residue
C1_Witness ==
    /\ Applied /\ fee.kind = "bps" /\ fee.bps = BPS_DENOMINATOR \div 3
    /\ amt = U64_MAX /\ IsOk(res)
    /\ res.val.fees_charged > 0 /\ res.val.amt_after_fee > 0
    /\ (amt * (BPS_DENOMINATOR - fee.bps)) % BPS_DENOMINATOR # 0

\* C2: for every valid fee with fee_denom > 0 and every amount, amt_after_fee is
\* floor(amount * (fee_denom - fee_num) / fee_denom), neither overflowed nor
\* truncated, and fees_charged is amount - amt_after_fee.
C2_FloorOfRemainder ==
    (Applied /\ FeeNum(fee) <= FeeDenom(fee) /\ FeeDenom(fee) > 0) =>
        /\ IsOk(res)
        /\ res.val.amt_after_fee = (amt * (FeeDenom(fee) - FeeNum(fee))) \div FeeDenom(fee)
        /\ res.val.fees_charged = amt - res.val.amt_after_fee

\* the largest amount under a 1 bps fee: the product needs the widened type
C2_Witness ==
    /\ Applied /\ fee.kind = "bps" /\ fee.bps = 1 /\ amt = U64_MAX
    /\ amt * (BPS_DENOMINATOR - 1) > U64_MAX
    /\ res = Ok(AmtsAfterFee(U64_MAX - ceil_div(U64_MAX, BPS_DENOMINATOR),
                             ceil_div(U64_MAX, BPS_DENOMINATOR)))

\* C3: zero fee identity: for every fee with fee_num = 0 and every amount, apply
\* returns Ok with amt_after_fee = amount and fees_charged = 0.
C3_ZeroFeeIdentity ==
    (Applied /\ FeeNum(fee) = 0) => res = Ok(AmtsAfterFee(amt, 0))

C3_Witness ==
    /\ Applied /\ fee = [kind |-> "bps", bps |-> 0] /\ amt = U64_MAX
    /\ res = Ok(AmtsAfterFee(U64_MAX, 0))

\* C4: a 100% fee charges everything: U64BpsFeeCeil(10_000).apply(amount) is
\* Ok with amt_after_fee = 0 and fees_charged = amount.
C4_FullFee ==
    (Applied /\ fee.kind = "bps" /\ fee.bps = 10000) => res = Ok(AmtsAfterFee(0, amt))

C4_Witness ==
    /\ Applied /\ fee = [kind |-> "bps", bps |-> 10000] /\ amt = 500
    /\ res = Ok(AmtsAfterFee(0, 500))

\* C5: for every 16-bit bps, is_valid returns true exactly when bps <= 10_000
\* and false otherwise; it returns a plain bool, never an error.
C5_IsValid ==
    op = "is_valid" => res = Plain(fee.bps <= 10000)

C5_Witness ==
    op = "is_valid" /\ fee.bps = 10001 /\ res = Plain(FALSE) /\ amt = 0

\* C6: is_valid and apply agree: U64BpsFeeCeil(bps).apply(amount) returns Ok if
\* and only if U64BpsFeeCeil(bps).is_valid() is true.
C6_ApplyIffValid ==
    (Applied /\ fee.kind = "bps") => (IsOk(res) <=> U64BpsFeeCeil_is_valid(fee.bps))

C6_Witness ==
    /\ Applied /\ fee.kind = "bps" /\ fee.bps = U16_MAX /\ amt = U64_MAX
    /\ ~IsOk(res) /\ ~U64BpsFeeCeil_is_valid(fee.bps)

\* C7: for every fee with fee_num > fee_denom and every amount, apply returns
\* the error InvalidFeeSpec.
C7_InvalidFeeSpec ==
    (Applied /\ FeeNum(fee) > FeeDenom(fee)) => IsErr(res, "InvalidFeeSpec")

C7_Witness ==
    /\ Applied /\ fee = [kind |-> "bps", bps |-> 10001] /\ amt = 0
    /\ res = Err("InvalidFeeSpec")

C9_PseudoReverseIdentity ==
    (Reversed /\ (FeeNum(fee) = 0 \/ FeeDenom(fee) = 0)) => res = Ok(amt)

C9_Witness ==
    /\ Reversed /\ fee = [kind |-> "bps", bps |-> 0] /\ amt = U64_MAX
    /\ res = Ok(U64_MAX)

C11_PseudoReverseIsPreimage ==
    /\ op = "pseudo_reverse_of_applied" => IsOk(res)
    /\ op = "apply_of_reversed" =>
           /\ IsOk(res)
           /\ res.val.amt_after_fee = trail[1].val.amt_after_fee

\* half taken as fee from the largest amount, recovered as a smaller amount
C11_Witness ==
    /\ op = "apply_of_reversed" /\ fee.bps = BPS_DENOMINATOR \div 2 /\ amt = U64_MAX
    /\ trail[2].val < amt
    /\ res.val.amt_after_fee = trail[1].val.amt_after_fee
    /\ res.val.fees_charged > 0

\* C25: every MathError, Overflow and InvalidFeeSpec alike, converts to the
\* same ProgramError::Custom(696969).
C25_OneErrorCode ==
    op = "into_program_error" =>
        /\ trail[1].val \in MathError
        /\ res = Custom(696969)

\* half taken as fee leaves no amount that u64::MAX could remain of: Overflow
C25_Witness ==
    /\ op = "into_program_error" /\ fee.kind = "bps" /\ fee.bps = BPS_DENOMINATOR \div 2
    /\ amt = U64_MAX
    /\ trail = <<Err("Overflow")>>
    /\ res = Custom(696969)

\* the other kind of failure, converted to the same code
C25_WitnessInvalidFeeSpec ==
    /\ op = "into_program_error" /\ trail = <<Err("InvalidFeeSpec")>>
    /\ res = Custom(696969)

\* C26: U64BpsFeeCeil is a pure delegation: for every bps and every u64
\* input, apply and pseudo_reverse return exactly what
\* U64FeeCeil{fee_num: bps, fee_denom: 10_000} returns, values and errors alike.
C26_Delegation ==
    fee.kind = "bps" =>
        /\ Applied => res = U64FeeCeil_apply([fee_num |-> fee.bps, fee_denom |-> 10000], amt)
        /\ Reversed =>
               res = U64FeeCeil_pseudo_reverse([fee_num |-> fee.bps, fee_denom |-> 10000], amt)

\* an error delegated: a fee above 100% reversed
C26_Witness ==
    /\ Reversed /\ fee = [kind |-> "bps", bps |-> U16_MAX] /\ amt = U64_MAX
    /\ res = Err("InvalidFeeSpec")
    /\ res = U64FeeCeil_pseudo_reverse([fee_num |-> U16_MAX, fee_denom |-> 10000], U64_MAX)

\* C28: the recovered original is never smaller than what remained: for every
\* valid fee, a 100% fee included, and every amt_after_fee for which
\* pseudo_reverse returns Ok(x), x >= amt_after_fee.
C28_RecoveredNotSmaller ==
    (Reversed /\ FeeNum(fee) <= FeeDenom(fee) /\ IsOk(res)) => res.val >= amt

-----------------------------------------------------------------------------
(* Claims about ratios under a rounding policy (SpecRatio) *)

RatioApplied == op = "ratio_apply"

RatioReversed == op \in {"ratio_reverse", "ratio_reverse_of_applied"}

\* the output a reverse call was made on
Output == IF op = "ratio_reverse" THEN amt ELSE trail[1].val

Product == amt * ratio.num

\* C12 as stated: for every ratio with denom # 0 and every amount, the
\* round-down apply returns exactly floor(amount * num / denom).
C12_Original ==
    (RatioApplied /\ ratio.kind = "floor" /\ ratio.denom # 0) =>
        IsOk(res) /\ res.val = Product \div ratio.denom

\* C12 amended: for every ratio with denom # 0 and every amount, the
\* round-down apply returns exactly floor(amount * num / denom), the product
\* never truncated, whenever that value fits in u64; when it does not (which
\* needs num > denom) apply returns Overflow.
C12_FloorApply ==
    (RatioApplied /\ ratio.kind = "floor" /\ ratio.denom # 0) =>
        IF Product \div ratio.denom <= U64_MAX
        THEN IsOk(res) /\ res.val = Product \div ratio.denom
        ELSE IsErr(res, "Overflow") /\ ratio.num > ratio.denom

\* a product beyond 64 bits whose quotient fits
C12_Witness ==
    /\ RatioApplied /\ ratio = FloorDiv(U64Ratio(U64_MAX - 1, U64_MAX)) /\ amt = U64_MAX
    /\ Product > U64_MAX
    /\ res = Ok(U64_MAX - 1)

\* C13 as stated: for every ratio with denom # 0 and every amount, the round-up
\* apply returns exactly ceil(amount * num / denom).
C13_Original ==
    (RatioApplied /\ ratio.kind = "ceil" /\ ratio.denom # 0) =>
        IsOk(res) /\ res.val = ceil_div(Product, ratio.denom)

\* C13 amended: for every ratio with denom # 0 and every amount, the round-up
\* apply returns exactly ceil(amount * num / denom) whenever that value fits in
\* u64, and Overflow when it does not; a returned value equals the round-down
\* result when denom divides amount * num and exceeds it by exactly 1 otherwise.
C13_CeilApply ==
    (RatioApplied /\ ratio.kind = "ceil" /\ ratio.denom # 0) =>
        IF ceil_div(Product, ratio.denom) <= U64_MAX
        THEN /\ IsOk(res)
             /\ res.val = ceil_div(Product, ratio.denom)
             /\ res.val = FloorDiv_apply(ratio.num, ratio.denom, amt).val
                            + (IF Product % ratio.denom = 0 THEN 0 ELSE 1)
        ELSE IsErr(res, "Overflow")

\* 3 * 1/2 rounds up to 2 where it rounds down to 1
C13_Witness ==
    /\ RatioApplied /\ ratio = CeilDiv(U64Ratio(1, 2)) /\ amt = 3
    /\ res = Ok(2)
    /\ FloorDiv_apply(1, 2, 3) = Ok(1)

\* C14: degenerate ratios apply to zero: with denom = 0 or num = 0, under either
\* rounding policy and for every amount, apply returns Ok(0).
C14_DegenerateApply ==
    (RatioApplied /\ (ratio.denom = 0 \/ ratio.num = 0)) => (IsOk(res) /\ res.val = 0)

C14_Witness ==
    /\ RatioApplied /\ ratio = FloorDiv(U64Ratio(U64_MAX, 0)) /\ amt = U64_MAX
    /\ res = Ok(0)

\* C15 as stated: for every ratio of 64-bit num and denom and every amount,
\* apply never returns Overflow.
C15_Original ==
    RatioApplied => ~IsErr(res, "Overflow")

\* what apply rounds to, were it not narrowed to u64
Rounded ==
    IF ratio.denom = 0 THEN 0
    ELSE IF ratio.kind = "floor" THEN Product \div ratio.denom
    ELSE ceil_div(Product, ratio.denom)

\* C15 amended: for every ratio of 64-bit num and denom and every amount, the
\* widened product amount * num never overflows; apply returns Overflow exactly
\* when the rounded quotient exceeds u64::MAX, which needs num > denom > 0
\* (e.g. num = u64::MAX, denom = 1, amount = u64::MAX), and Ok otherwise.
C15_OverflowOnlyOnNarrowing ==
    RatioApplied =>
        /\ IsOk(checked_mul(amt, ratio.num))
        /\ IsErr(res, "Overflow") <=> Rounded > U64_MAX
        /\ IsErr(res, "Overflow") => (ratio.num > ratio.denom /\ ratio.denom > 0)
        /\ IsOk(res) \/ IsErr(res, "Overflow")

C15_Witness ==
    /\ RatioApplied /\ ratio = FloorDiv(U64Ratio(U64_MAX, 1)) /\ amt = U64_MAX
    /\ res = Err("Overflow")

\* C16: reverse soundness: for every ratio, either rounding policy and every
\* amount x, if apply(x) returns Ok(y) then reverse(y) returns Ok(range) with
\* range.min <= x <= range.max.
C16_ReverseSound ==
    op = "ratio_reverse_of_applied" =>
        /\ IsOk(res)
        /\ res.val.min <= amt
        /\ amt <= res.val.max

\* the largest amount under 2/7, rounded down: three smaller amounts share its output
C16_Witness ==
    /\ op = "ratio_reverse_of_applied"
    /\ ratio = FloorDiv(U64Ratio(2, 7)) /\ amt = U64_MAX
    /\ IsOk(res) /\ res.val.min < amt /\ res.val.max = amt

\* apply(a) returns Ok(y)
Yields(a, y) ==
    LET r == ReversibleRatio_apply(ratio, a) IN IsOk(r) /\ r.val = y

\* range is exactly the set of amounts that apply to y
ExactPreimage(range, y) ==
    /\ Yields(range.min, y)
    /\ Yields(range.max, y)
    /\ range.min > 0 => ~Yields(range.min - 1, y)
    /\ range.max < U64_MAX => ~Yields(range.max + 1, y)
    /\ \A a \in Amounts : (range.min <= a /\ a <= range.max) <=> Yields(a, y)

C18_ZeroNumReverse ==
    (RatioReversed /\ ratio.num = 0) => res = Ok(U64ValueRange(0, U64_MAX))

C18_Witness ==
    /\ op = "ratio_reverse" /\ ratio = FloorDiv(U64Ratio(0, 7)) /\ amt = 500
    /\ res = Ok(U64ValueRange(0, U64_MAX))

\* C19: every U64ValueRange reverse returns successfully satisfies min <= max.
C19_MinLeMax ==
    (RatioReversed /\ IsOk(res)) => res.val.min <= res.val.max

-----------------------------------------------------------------------------
(* Claims about ratio comparison (SpecCmp) *)

\* C20: ratio comparison is exact cross-multiplication: a = b iff
\* a.num * b.denom = b.num * a.denom, and a.cmp(b) is the ordering of
\* a.num * b.denom against b.num * a.denom; so 1/2 = 2/4 and 3/7 < 1/2.
C20_CrossMultiplication ==
    LET l == ratio.num * rhs.denom
        r == rhs.num * ratio.denom
    IN  /\ op = "eq" => res = Plain(l = r)
        /\ op = "cmp" =>
               res = Plain(IF l < r THEN "Less" ELSE IF l > r THEN "Greater" ELSE "Equal")
        /\ (op = "cmp" /\ ratio = U64Ratio(3, 7) /\ rhs = U64Ratio(1, 2)) => res = Plain("Less")

C20_Witness ==
    /\ op = "eq" /\ ratio = U64Ratio(1, 2) /\ rhs = U64Ratio(2, 4)
    /\ res = Plain(TRUE)

C24_NeverPanics ==
    op \in {"eq", "cmp"} =>
        /\ res # Panic
        /\ res.tag = "Plain"
        /\ IsOk(checked_mul(ratio.num, rhs.denom))
        /\ IsOk(checked_mul(rhs.num, ratio.denom))

\* all four components at u64::MAX: both products are beyond 64 bits
C24_Witness ==
    /\ op = "eq" /\ ratio = U64Ratio(U64_MAX, U64_MAX) /\ rhs = U64Ratio(U64_MAX, U64_MAX)
    /\ ratio.num * rhs.denom > U64_MAX
    /\ res = Plain(TRUE)

\* C27: ordering of ratios agrees with their forward application: for any two
\* ratios a <= b under cmp and every amount x for which both round-down
\* applications succeed, apply(a, x) <= apply(b, x), also when a or b has
\* denom = 0.
C27_OrderAgreesWithApply ==
    (/\ op = "apply_rhs"
     /\ trail[1].tag = "Plain"
     /\ trail[1].val \in {"Less", "Equal"}
     /\ IsOk(trail[2])
     /\ IsOk(res)) => trail[2].val <= res.val

-----------------------------------------------------------------------------
(* Claims about chains of comparisons (SpecOrd) *)

\* a.cmp(b) answered a <= b
Le(r) == r.tag = "Plain" /\ r.val \in {"Less", "Equal"}

\* a == a
C23_Reflexive ==
    op = "eq_self" => res = Plain(TRUE)

\* a <= b and b <= a imply a == b
C23_Antisymmetric ==
    (op = "eq_after_cmp" /\ Le(trail[1]) /\ Le(trail[2])) => res = Plain(TRUE)

\* a == b and b == c imply a == c
C23_EqTransitive ==
    (op = "eq_outer" /\ trail[1] = Plain(TRUE) /\ trail[2] = Plain(TRUE)) => res = Plain(TRUE)

\* a <= b and b <= c imply a <= c
C23_LeTransitive ==
    (op = "cmp_outer" /\ Le(trail[1]) /\ Le(trail[2])) => Le(res)

\* C23: equality and ordering of U64Ratio are reflexive, antisymmetric and
\* transitive over the full domain, zero numerators and zero denominators
\* included.
C23_EquivalenceAndOrder ==
    /\ C23_Reflexive
    /\ C23_Antisymmetric
    /\ C23_EqTransitive
    /\ C23_LeTransitive

-----------------------------------------------------------------------------
(* Claims about return data (SpecPad) *)

\* C30: zero_padded_return_data::<N>(data) restores the truncated trailing
\* zeros: for data.len() <= N the result is an N-byte array whose first
\* data.len() bytes equal data and whose remaining bytes are all 0; for
\* data.len() > N it panics rather than truncating.
C30_ZeroPadded ==
    op = "zero_padded_return_data" =>
        IF Len(buf) <= N
        THEN /\ res.tag = "Plain"
             /\ Len(res.val) = N
             /\ \A i \in 1..Len(buf) : res.val[i] = buf[i]
             /\ \A i \in (Len(buf) + 1)..N : res.val[i] = 0
        ELSE res.tag = "Panic"

\* two bytes padded to three
C30_Witness ==
    /\ op = "zero_padded_return_data" /\ buf = <<1, 255>> /\ N = 3
    /\ res = Plain(<<1, 255, 0>>)

\* two bytes do not fit one
C30_WitnessPanic ==
    /\ op = "zero_padded_return_data" /\ buf = <<1, 255>> /\ N = 1
    /\ res.tag = "Panic"

-----------------------------------------------------------------------------
(* Claims about instruction data (SpecIx) *)

\* the discriminator the claim gives each variant
Discriminator(variant) ==
    CASE variant = "Initialize" -> 0
      [] variant = "AddValidatorToPool" -> 1
      [] variant = "RemoveValidatorFromPool" -> 2
      [] variant = "UpdateValidatorListBalance" -> 6
      [] variant = "UpdateStakePoolBalance" -> 7
      [] variant = "CleanupRemovedValidatorEntries" -> 8
      [] variant = "SetManager" -> 11
      [] variant = "SetFee" -> 12
      [] variant = "SetStaker" -> 13
      [] variant = "SetFundingAuthority" -> 15
      [] variant = "IncreaseAdditionalValidatorStake" -> 19
      [] variant = "DecreaseAdditionalValidatorStake" -> 20

\* C29: instruction encoding round-trips on the discriminator byte: for every
\* SplStakePoolProgramIx value ix, deserialize(try_to_vec(ix)) returns Ok(ix),
\* the first serialized byte being that variant's discriminator; deserialize
\* of a buffer whose first byte is any other value, or of an empty buffer,
\* returns an error.
C29_RoundTrip ==
    /\ op = "try_to_vec" =>
           /\ IsOk(res)
           /\ Len(res.val) >= 1
           /\ res.val[1] = Discriminator(ix.variant)
    /\ op = "deserialize_of_serialized" =>
           /\ IsOk(res)
           /\ res.val = ix
    /\ (op = "deserialize"
           /\ (buf = <<>> \/ buf[1] \notin {Discriminator(variant) : variant \in IxVariants})) =>
           res.tag = "Err"

\* an instruction with arguments, through its six bytes and back
C29_Witness ==
    /\ op = "deserialize_of_serialized"
    /\ ix = SplStakePoolProgramIx("UpdateValidatorListBalance", <<2147483647, TRUE>>)
    /\ trail = <<Ok(<<6, 255, 255, 255, 127, 1>>)>>
    /\ res = Ok(ix)

\* a first byte between two discriminators
C29_WitnessUnknown ==
    /\ op = "deserialize" /\ buf = <<3>>
    /\ res = Err("Other")

====
